---- MODULE Spec2Model ----
(***************************************************************************)
(* Model of the feedback-manager server: the two storage variants          *)
(* (MemStorage, FileStorage) and the HTTP handlers that use them           *)
(* (POST /api/fact-configuration, GET /api/fact-configuration,             *)
(* POST /api/generate-response).                                           *)
(*                                                                         *)
(* A request is a slot of `reqs`.  Every `await` of the code that waits    *)
(* for the file system or for the text-generation service ends a step, so  *)
(* that other requests interleave exactly where the event loop lets them.  *)
(* MemStorage methods contain no await: each is one step.                  *)
(***************************************************************************)
EXTENDS Integers, Sequences, FiniteSets, TLC

\* ---------------------------------------------------------------- bounds
MaxReqs == 3       \* requests issued in one behaviour
MaxConc == 2       \* requests in flight at the same time
MaxFaults == 1     \* file-system operations that fail in one behaviour
MaxTemplate == 2   \* tokens of a prompt template
MaxFrags == 2      \* fragments a feedback text is put together from
MaxEdits == 2      \* edits of the configuration in the browser
MaxImages == 2     \* screenshots given to the upload component

\* ------------------------------------------------------------- constants
FirstId == 1       \* first identifier of either store
FallbackConfigId == 1
NoId == 0          \* id of the sentinels that stand for `undefined`
Absent == -1       \* request body without a configurationId

Reqs == 1..MaxConc
Variants == {"mem", "file"}

\* Fact groups are opaque values here; "" is JavaScript's undefined.
Undef == ""
Missing == "<missing>"           \* key not present in a Partial<>
DefaultFacts ==
  [restaurantFacts |-> "Sample Bistro", customerFacts |-> "John Doe",
   systemFacts |-> "default system"]
OtherFacts ==
  [restaurantFacts |-> "Other Bistro", customerFacts |-> "Jane Roe",
   systemFacts |-> "other system"]
FactsInputs == {DefaultFacts, OtherFacts}
PartialInputs ==
  { [restaurantFacts |-> "Third Bistro", customerFacts |-> Missing,
     systemFacts |-> Missing],
    [restaurantFacts |-> Missing, customerFacts |-> Undef,
     systemFacts |-> "third system"] }
IdInputs == {1, 2}
\* req.body.configurationId: absent, 0, or an identifier
CidInputs == {Absent, 0} \cup IdInputs
FeedbackInputs == {"", "Great food!"}
\* what the text-generation service does: throws, returns no content, or text
AiOutputs == {"<throws>", "", "Thank you!"}
AiThrows == "<throws>"
\* process.env.OPENAI_API_KEY || process.env.OPENAI_API_KEY_ENV_VAR
ApiKeyInputs == {"", "default_key", "sk-live"}
DummyKey == "dummy_key_for_development"

MkConfig(id, rf, cf, sf) ==
  [id |-> id, restaurantFacts |-> rf, customerFacts |-> cf, systemFacts |-> sf]
NoConfig == MkConfig(NoId, Undef, Undef, Undef)
DefaultConfig ==
  MkConfig(FirstId, DefaultFacts.restaurantFacts, DefaultFacts.customerFacts,
           DefaultFacts.systemFacts)
MkResponse(id, fb, ai, cid) ==
  [id |-> id, feedbackText |-> fb, aiResponse |-> ai, configurationId |-> cid]
NoResponse == MkResponse(NoId, "", "", NoId)

VARIABLES
  variant,           \* which IStorage implementation `storage` is
  factConfigs,       \* MemStorage.factConfigs (Map, in insertion order)
  currentConfigId,   \* MemStorage.currentConfigId
  feedbackResp,      \* MemStorage.feedbackResp (Map, in insertion order)
  currentResponseId, \* MemStorage.currentResponseId
  dirExists,         \* FileStorage: data directory exists
  configFile,        \* FileStorage: content of configurations.json
  responsesFile,     \* FileStorage: content of responses.json
  initPc,            \* FileStorage: position of ensureDataDirectory
  reqs,              \* the requests and their local variables
  started,           \* number of requests issued so far
  openaiApiKey,      \* routes: the module constant openaiApiKey
  faults,            \* file-system failures so far
  cfgHanded,         \* history: the ids createFactConfiguration returned
  respHanded,        \* history: the ids createFeedbackResponse returned
  calc,              \* the handler's computations on texts, taken alone
  client             \* the browser: FeedbackManager and the network

memVars == <<factConfigs, currentConfigId, feedbackResp, currentResponseId>>
fileVars == <<dirExists, configFile, responsesFile>>
respStoreVars == <<feedbackResp, currentResponseId, responsesFile>>
histVars == <<cfgHanded, respHanded>>
vars == <<variant, factConfigs, currentConfigId, feedbackResp,
          currentResponseId, dirExists, configFile, responsesFile, initPc,
          reqs, started, openaiApiKey, faults, cfgHanded, respHanded,
          calc, client>>

\* ------------------------------------------------------- sequence helpers
Ids(s) == {s[i].id : i \in 1..Len(s)}
MaxOf(S) == CHOOSE m \in S : \A x \in S : x <= m
\* a findIndex that finds the first element whatever its id
FindIndex_First(s, id) == IF Len(s) = 0 THEN 0 ELSE 1
\* Array.prototype.findIndex: first index whose id matches, 0 for -1
FindIndex(s, id) ==
  IF \E i \in 1..Len(s) : s[i].id = id
  THEN CHOOSE i \in 1..Len(s) : s[i].id = id /\ \A j \in 1..(i-1) : s[j].id # id
  ELSE 0
\* Array.prototype.find / Map.prototype.get
FindConfig(s, id) == IF FindIndex(s, id) = 0 THEN NoConfig ELSE s[FindIndex(s, id)]
FindResponse(s, id) == IF FindIndex(s, id) = 0 THEN NoResponse ELSE s[FindIndex(s, id)]
\* Map.prototype.set: replaces the value of a present key in place
MapSet(s, rec) ==
  IF FindIndex(s, rec.id) = 0 THEN Append(s, rec)
  ELSE [s EXCEPT ![FindIndex(s, rec.id)] = rec]

\* --------------------------------------------------------- file contents
MkFile(ex, items, nextId) == [exists |-> ex, items |-> items, nextId |-> nextId]
NoFile == MkFile(FALSE, <<>>, 0)
MkData(items, nextId) == [items |-> items, nextId |-> nextId]
EmptyData == MkData(<<>>, FirstId)

\* the fact groups of a configuration, as the prompt takes them up
FactsOf(config) ==
  [restaurantFacts |-> config.restaurantFacts,
   customerFacts |-> config.customerFacts,
   systemFacts |-> config.systemFacts]

\* ----------------------------------------------------------------- Init
IdleReq ==
  [kind |-> "none", pc |-> "idle", id |-> Absent, facts |-> DefaultFacts,
   feedback |-> "", data |-> EmptyData, config |-> NoConfig, ai |-> "",
   resCfg |-> NoConfig, resRec |-> NoResponse, outcome |-> "pending",
   calls |-> 0, writes |-> 0, ioFailed |-> FALSE, afterInit |-> FALSE,
   partial |-> DefaultFacts, prompt |-> FactsOf(NoConfig), resList |-> <<>>]

\* no computation on texts is looked at
NoCalc == [kind |-> "none", pc |-> "idle"]

InitServer ==
  /\ variant \in Variants
  /\ factConfigs = IF variant = "mem" THEN <<DefaultConfig>> ELSE <<>>
  /\ currentConfigId = IF variant = "mem" THEN FirstId + 1 ELSE FirstId
  /\ feedbackResp = <<>>
  /\ currentResponseId = FirstId
  /\ dirExists = FALSE
  /\ configFile = NoFile
  /\ responsesFile = NoFile
  /\ initPc = IF variant = "mem" THEN "done" ELSE "mkdir"
  /\ reqs = [r \in Reqs |-> IdleReq]
  /\ started = 0
  /\ openaiApiKey \in ApiKeyInputs
  /\ faults = 0
  /\ cfgHanded = IF variant = "mem" THEN {FirstId} ELSE {}
  /\ respHanded = {}
\* ScreenshotUpload before any image: `image` is the image the preview
\* shows and `factsOf` the image extractedFacts came from (0 for none);
\* `reading` and `analyzing` are the images whose FileReader and whose
\* request are under way, `delivered` the calls of onFactsExtracted so far
NoUpload ==
  [isProcessing |-> FALSE, extractedFacts |-> <<>>, factsOf |-> 0,
   previewUrl |-> 0, images |-> 0, reading |-> {}, analyzing |-> {},
   delivered |-> <<>>]
\* the page before its first load: no configuration, nothing under way
NoClient ==
  [configuration |-> NoConfig, edits |-> 0, lastEdit |-> FactsOf(NoConfig),
   timers |-> <<>>, requests |-> {}, atServer |-> [r \in Reqs |-> 0],
   responses |-> {}, sent |-> 0, upload |-> NoUpload]

Init == InitServer /\ calc = NoCalc /\ client = NoClient

\* ------------------------------------------------ FileStorage: file access
\* a file-system call may fail; `fail` is the environment's choice
FaultOK(fail) == fail => faults < MaxFaults
FaultCount(fail) == faults + (IF fail THEN 1 ELSE 0)

ReadFails(file, fail) == fail \/ ~file.exists
\* readConfigurations / readResponses: the catch returns an empty store
ReadFile(file, fail) ==
  IF ReadFails(file, fail) THEN EmptyData ELSE MkData(file.items, file.nextId)
ReadConfigurations(fail) == ReadFile(configFile, fail)
ReadResponses(fail) == ReadFile(responsesFile, fail)

WriteFails(fail) == fail \/ ~dirExists
\* writeConfigurations / writeResponses: the catch only logs
WriteFile(file, data, fail) ==
  IF WriteFails(fail) THEN file ELSE MkFile(TRUE, data.items, data.nextId)
WriteConfigurations(data, fail) == WriteFile(configFile, data, fail)
WriteResponses(data, fail) == WriteFile(responsesFile, data, fail)

DefaultConfigData == MkData(<<DefaultConfig>>, FirstId + 1)
DefaultResponsesData == MkData(<<>>, FirstId)

\* ------------------------------------- FileStorage.ensureDataDirectory
InitMkdir(fail) ==
  /\ initPc = "mkdir" /\ FaultOK(fail)
  /\ dirExists' = ~fail
  /\ initPc' = IF fail THEN "done" ELSE "accessConfig"
  /\ faults' = FaultCount(fail)
  /\ UNCHANGED <<variant, calc, client, memVars, configFile, responsesFile, reqs,
                 started, openaiApiKey, histVars>>

InitAccessConfig(fail) ==
  /\ initPc = "accessConfig" /\ FaultOK(fail)
  /\ initPc' = IF fail \/ ~configFile.exists THEN "writeConfig"
               ELSE "accessResponses"
  /\ faults' = FaultCount(fail)
  /\ UNCHANGED <<variant, calc, client, memVars, fileVars, reqs, started, openaiApiKey,
                 histVars>>

InitWriteConfig(fail) ==
  /\ initPc = "writeConfig" /\ FaultOK(fail)
  /\ configFile' = WriteConfigurations(DefaultConfigData, fail)
  /\ initPc' = IF WriteFails(fail) THEN "done" ELSE "accessResponses"
  /\ faults' = FaultCount(fail)
  /\ UNCHANGED <<variant, calc, client, memVars, dirExists, responsesFile, reqs,
                 started, openaiApiKey, histVars>>

InitAccessResponses(fail) ==
  /\ initPc = "accessResponses" /\ FaultOK(fail)
  /\ initPc' = IF fail \/ ~responsesFile.exists THEN "writeResponses"
               ELSE "done"
  /\ faults' = FaultCount(fail)
  /\ UNCHANGED <<variant, calc, client, memVars, fileVars, reqs, started, openaiApiKey,
                 histVars>>

InitWriteResponses(fail) ==
  /\ initPc = "writeResponses" /\ FaultOK(fail)
  /\ responsesFile' = WriteResponses(DefaultResponsesData, fail)
  /\ initPc' = "done"
  /\ faults' = FaultCount(fail)
  /\ UNCHANGED <<variant, calc, client, memVars, dirExists, configFile, reqs,
                 started, openaiApiKey, histVars>>

\* ------------------------------------------------------- store functions
\* getLatestFactConfiguration
MemLatest(map) ==
  IF Len(map) = 0 THEN NoConfig ELSE FindConfig(map, MaxOf(Ids(map)))
\* a getLatest that takes the first element of the array, not the last
FileLatest_First(items) ==
  IF Len(items) = 0 THEN NoConfig ELSE items[1]
FileLatest(items) ==
  IF Len(items) = 0 THEN NoConfig ELSE items[Len(items)]

\* createFactConfiguration: the record and the store after it
NewConfig(id, facts) ==
  MkConfig(id, facts.restaurantFacts, facts.customerFacts, facts.systemFacts)
\* a create that leaves nextId as it read it
FileCreateConfig_SameNextId(data, facts) ==
  MkData(Append(data.items, NewConfig(data.nextId, facts)), data.nextId)
FileCreateConfig(data, facts) ==
  MkData(Append(data.items, NewConfig(data.nextId, facts)), data.nextId + 1)

\* updateFactConfiguration: { ...existing, ...config, id } in MemStorage,
\* config.x || existing.x in FileStorage
Spread(old, new) == IF new = Missing THEN old ELSE new
OrElse(new, old) == IF new = Missing \/ new = Undef THEN old ELSE new
MemUpdated(existing, id, partial) ==
  MkConfig(id, Spread(existing.restaurantFacts, partial.restaurantFacts),
           Spread(existing.customerFacts, partial.customerFacts),
           Spread(existing.systemFacts, partial.systemFacts))
FileUpdated(existing, id, partial) ==
  MkConfig(id, OrElse(partial.restaurantFacts, existing.restaurantFacts),
           OrElse(partial.customerFacts, existing.customerFacts),
           OrElse(partial.systemFacts, existing.systemFacts))

\* createFeedbackResponse
MemNewResponse(id, fb, ai, cid) == MkResponse(id, fb, ai, cid)
\* a record that always gets the fallback configurationId
FileNewResponse_Fallback(id, fb, ai, cid) ==
  MkResponse(id, fb, ai, FallbackConfigId)
FileNewResponse(id, fb, ai, cid) ==
  MkResponse(id, fb, ai, IF cid = NoId THEN FallbackConfigId ELSE cid)
\* a create that skips a record whose like the store already holds
FileCreateResponse_Dedup(data, fb, ai, cid) ==
  IF \E i \in 1..Len(data.items) :
       /\ data.items[i].feedbackText = fb /\ data.items[i].aiResponse = ai
       /\ data.items[i].configurationId = cid
  THEN data
  ELSE MkData(Append(data.items, FileNewResponse(data.nextId, fb, ai, cid)),
              data.nextId + 1)
\* a create that writes the new record alone
FileCreateResponse_Alone(data, fb, ai, cid) ==
  MkData(<<FileNewResponse(data.nextId, fb, ai, cid)>>, data.nextId + 1)
FileCreateResponse(data, fb, ai, cid) ==
  MkData(Append(data.items, FileNewResponse(data.nextId, fb, ai, cid)),
         data.nextId + 1)

\* what the stores hold now, whichever the variant
ConfigStore == IF variant = "mem" THEN factConfigs ELSE configFile.items
ResponseStore == IF variant = "mem" THEN feedbackResp ELSE responsesFile.items
\* the identifier counters
ConfigCounter == IF variant = "mem" THEN currentConfigId ELSE configFile.nextId
ResponseCounter ==
  IF variant = "mem" THEN currentResponseId ELSE responsesFile.nextId

\* --------------------------------------------------------------- requests
\* A request takes the lowest slot that holds no request in flight.  A
\* finished request stays in its slot, with its reply, until the next
\* request arrives: two finished requests are in `reqs` together only if
\* they overlapped in time.
InFlight(r) == reqs[r].pc \notin {"idle", "done"}
CanStart(r) ==
  /\ started < MaxReqs
  /\ ~InFlight(r)
  /\ \A q \in 1..(r - 1) : InFlight(q)
MemOnly(fail) == variant = "mem" => ~fail
Started(kind) == [IdleReq EXCEPT !.kind = kind, !.afterInit = (initPc = "done")]
\* reqs after request r arrived and ran up to `req`
Arrive(r, req) ==
  [q \in Reqs |-> IF q = r THEN req
                  ELSE IF InFlight(q) THEN reqs[q] ELSE IdleReq]
\* reqs after request r went on to `req`
After(r, req) == [reqs EXCEPT ![r] = req]
Finish(req, outcome) ==
  [req EXCEPT !.pc = "done", !.outcome = outcome, !.data = EmptyData]

\* -- createFactConfiguration (POST /api/fact-configuration after validation)
CreateCallStep(r, facts, fail) ==
  /\ CanStart(r) /\ FaultOK(fail) /\ MemOnly(fail)
  /\ faults' = FaultCount(fail)
  /\ started' = started + 1
  /\ IF variant = "mem"
     THEN LET id == currentConfigId
              factConfig == NewConfig(id, facts)
          IN /\ currentConfigId' = id + 1
             /\ factConfigs' = MapSet(factConfigs, factConfig)
             /\ reqs' = Arrive(r, Finish([Started("create") EXCEPT
                   !.facts = facts, !.resCfg = factConfig, !.writes = 1],
                   "ok"))
             /\ cfgHanded' = cfgHanded \cup {id}
             /\ UNCHANGED configFile
     ELSE /\ reqs' = Arrive(r, [Started("create") EXCEPT
                !.pc = "write", !.facts = facts,
                !.data = ReadConfigurations(fail),
                !.ioFailed = ReadFails(configFile, fail)])
          /\ UNCHANGED <<factConfigs, currentConfigId, configFile, cfgHanded>>
  /\ UNCHANGED <<variant, calc, feedbackResp, currentResponseId, dirExists,
                 responsesFile, initPc, openaiApiKey, respHanded>>
CreateCall(r, facts, fail) ==
  CreateCallStep(r, facts, fail) /\ UNCHANGED client

CreateWriteStep(r, fail) ==
  /\ reqs[r].kind = "create" /\ reqs[r].pc = "write" /\ FaultOK(fail)
  /\ faults' = FaultCount(fail)
  /\ LET data == reqs[r].data
         factConfig == NewConfig(data.nextId, reqs[r].facts)
     IN /\ configFile' =
             WriteConfigurations(FileCreateConfig(data, reqs[r].facts), fail)
        /\ reqs' = After(r, Finish([reqs[r] EXCEPT
              !.resCfg = factConfig, !.writes = 1,
              !.ioFailed = @ \/ WriteFails(fail)], "ok"))
        /\ cfgHanded' = cfgHanded \cup {data.nextId}
  /\ UNCHANGED <<variant, calc, memVars, dirExists, responsesFile, initPc, started,
                 openaiApiKey, respHanded>>
CreateWrite(r, fail) == CreateWriteStep(r, fail) /\ UNCHANGED client

\* -- updateFactConfiguration
UpdateCall(r, id, partial, fail) ==
  /\ CanStart(r) /\ FaultOK(fail) /\ MemOnly(fail)
  /\ faults' = FaultCount(fail)
  /\ started' = started + 1
  /\ IF variant = "mem"
     THEN LET existing == FindConfig(factConfigs, id)
              updated == MemUpdated(existing, id, partial)
              req == [Started("update") EXCEPT !.id = id, !.partial = partial]
          IN IF existing = NoConfig
             THEN /\ reqs' = Arrive(r, Finish(req, "notfound"))
                  /\ UNCHANGED factConfigs
             ELSE /\ factConfigs' = MapSet(factConfigs, updated)
                  /\ reqs' = Arrive(r, Finish([req EXCEPT
                        !.config = existing, !.resCfg = updated,
                        !.writes = 1], "ok"))
     ELSE LET data == ReadConfigurations(fail)
              req == [Started("update") EXCEPT
                        !.id = id, !.partial = partial,
                        !.ioFailed = ReadFails(configFile, fail)]
          IN /\ reqs' = Arrive(r, IF FindIndex(data.items, id) = 0
                                 THEN Finish(req, "notfound")
                                 ELSE [req EXCEPT !.pc = "write",
                                                  !.data = data])
             /\ UNCHANGED factConfigs
  /\ UNCHANGED <<variant, calc, client, currentConfigId, feedbackResp, currentResponseId,
                 fileVars, initPc, openaiApiKey, histVars>>

UpdateWrite(r, fail) ==
  /\ reqs[r].kind = "update" /\ reqs[r].pc = "write" /\ FaultOK(fail)
  /\ faults' = FaultCount(fail)
  /\ LET data == reqs[r].data
         index == FindIndex(data.items, reqs[r].id)
         updated == FileUpdated(data.items[index], reqs[r].id, reqs[r].partial)
         newData == MkData([data.items EXCEPT ![index] = updated], data.nextId)
     IN /\ configFile' = WriteConfigurations(newData, fail)
        /\ reqs' = After(r, Finish([reqs[r] EXCEPT
              !.config = data.items[index], !.resCfg = updated, !.writes = 1,
              !.ioFailed = @ \/ WriteFails(fail)], "ok"))
  /\ UNCHANGED <<variant, calc, client, memVars, dirExists, responsesFile, initPc, started,
                 openaiApiKey, histVars>>

\* -- getFactConfiguration
GetConfig(id, fail) ==
  IF variant = "mem" THEN FindConfig(factConfigs, id)
  ELSE FindConfig(ReadConfigurations(fail).items, id)
\* -- getLatestFactConfiguration
GetLatest(fail) ==
  IF variant = "mem" THEN MemLatest(factConfigs)
  ELSE FileLatest(ReadConfigurations(fail).items)
Found(config) == IF config = NoConfig THEN "notfound" ELSE "ok"
\* -- getFeedbackResponse, getAllFeedbackResponses: they change nothing, and
\* what they return is a function of the store at the moment they read it
GetFeedbackResponse(id, fail) ==
  IF variant = "mem" THEN FindResponse(feedbackResp, id)
  ELSE FindResponse(ReadResponses(fail).items, id)
GetAllFeedbackResponses(fail) ==
  IF variant = "mem" THEN feedbackResp ELSE ReadResponses(fail).items
ConfigReadFails(fail) == variant = "file" /\ ReadFails(configFile, fail)

GetCall(r, id, fail) ==
  /\ CanStart(r) /\ FaultOK(fail) /\ MemOnly(fail)
  /\ faults' = FaultCount(fail)
  /\ started' = started + 1
  /\ reqs' = Arrive(r, Finish([Started("get") EXCEPT
        !.id = id, !.resCfg = GetConfig(id, fail),
        !.ioFailed = ConfigReadFails(fail)],
        Found(GetConfig(id, fail))))
  /\ UNCHANGED <<variant, calc, client, memVars, fileVars, initPc, openaiApiKey, histVars>>

\* also GET /api/fact-configuration, which answers 404 for undefined
GetLatestCall(r, fail) ==
  /\ CanStart(r) /\ FaultOK(fail) /\ MemOnly(fail)
  /\ faults' = FaultCount(fail)
  /\ started' = started + 1
  /\ reqs' = Arrive(r, Finish([Started("getLatest") EXCEPT
        !.resCfg = GetLatest(fail),
        !.ioFailed = ConfigReadFails(fail)],
        Found(GetLatest(fail))))
  /\ UNCHANGED <<variant, calc, client, memVars, fileVars, initPc, openaiApiKey, histVars>>

\* ------------------------------------------- POST /api/generate-response
\* a handler without the check of feedbackText
FeedbackMissing_Never(fb) == FALSE
FeedbackMissing(fb) == fb = ""                       \* !feedbackText
Truthy(cid) == cid # Absent /\ cid # 0               \* configurationId ? :
KeyMissing(key) == key = "" \/ key = DummyKey
\* the check at start-up that warns that no valid key was found
NoValidKey(key) == key = "" \/ key = "default_key"
\* a handler without the check of the returned content
ContentMissing_Never(ai) == FALSE
ContentMissing(ai) == ai = ""                        \* !aiResponse
ResolveConfig(cid, fail) ==
  IF Truthy(cid) THEN GetConfig(cid, fail) ELSE GetLatest(fail)

\* up to the call of the text-generation service
GenCallStep(r, fb, cid, fail) ==
  /\ CanStart(r) /\ FaultOK(fail) /\ MemOnly(fail)
  /\ FeedbackMissing(fb) => ~fail
  /\ faults' = FaultCount(fail)
  /\ started' = started + 1
  /\ LET config == ResolveConfig(cid, fail)
         req == [Started("generate") EXCEPT !.feedback = fb, !.id = cid]
         read == [req EXCEPT !.config = config,
                                !.ioFailed = ConfigReadFails(fail)]
         built == [read EXCEPT !.prompt = FactsOf(config)]
     IN reqs' = Arrive(r,
          IF FeedbackMissing(fb) THEN Finish(req, "validation")
          ELSE IF config = NoConfig THEN Finish(read, "notfound")
          ELSE IF KeyMissing(openaiApiKey) THEN Finish(built, "nokey")
          ELSE [built EXCEPT !.pc = "llm"])
  /\ UNCHANGED <<variant, calc, memVars, fileVars, initPc, openaiApiKey, histVars>>
GenCall(r, fb, cid, fail) ==
  GenCallStep(r, fb, cid, fail) /\ UNCHANGED client

\* the service answers; on text, createFeedbackResponse starts
GenLLM(r, out, fail) ==
  /\ reqs[r].kind = "generate" /\ reqs[r].pc = "llm"
  /\ FaultOK(fail) /\ MemOnly(fail)
  /\ (out = AiThrows \/ ContentMissing(out)) => ~fail
  /\ faults' = FaultCount(fail)
  /\ LET req == [reqs[r] EXCEPT !.calls = @ + 1, !.ai = out]
     IN IF out = AiThrows \/ ContentMissing(out)
        THEN /\ reqs' = After(r, Finish(req, "dependency"))
             /\ UNCHANGED <<feedbackResp, currentResponseId, respHanded>>
        ELSE IF variant = "mem"
        THEN LET id == currentResponseId
                 feedbackResponse ==
                   MemNewResponse(id, reqs[r].feedback, out, reqs[r].config.id)
             IN /\ currentResponseId' = id + 1
                /\ feedbackResp' = MapSet(feedbackResp, feedbackResponse)
                /\ reqs' = After(r, Finish([req EXCEPT
                      !.resRec = feedbackResponse, !.writes = 1], "ok"))
                /\ respHanded' = respHanded \cup {id}
        ELSE /\ reqs' = After(r, [req EXCEPT
                   !.pc = "save", !.data = ReadResponses(fail),
                   !.ioFailed = @ \/ ReadFails(responsesFile, fail)])
             /\ UNCHANGED <<feedbackResp, currentResponseId, respHanded>>
  /\ UNCHANGED <<variant, calc, client, factConfigs, currentConfigId, fileVars, initPc,
                 started, openaiApiKey, cfgHanded>>

\* FileStorage.createFeedbackResponse writes, the handler replies
GenSave(r, fail) ==
  /\ reqs[r].kind = "generate" /\ reqs[r].pc = "save" /\ FaultOK(fail)
  /\ faults' = FaultCount(fail)
  /\ LET data == reqs[r].data
         feedbackResponse ==
           FileNewResponse(data.nextId, reqs[r].feedback, reqs[r].ai,
                           reqs[r].config.id)
     IN /\ responsesFile' =
             WriteResponses(FileCreateResponse(data, reqs[r].feedback,
                                               reqs[r].ai, reqs[r].config.id),
                            fail)
        /\ reqs' = After(r, Finish([reqs[r] EXCEPT
              !.resRec = feedbackResponse, !.writes = 1,
              !.ioFailed = @ \/ WriteFails(fail)], "ok"))
        /\ respHanded' = respHanded \cup {data.nextId}
  /\ UNCHANGED <<variant, calc, client, memVars, dirExists, configFile, initPc, started,
                 openaiApiKey, cfgHanded>>

\* -- createFeedbackResponse, called on the store itself; a record without
\* configurationId has NoId there
ResponseCidInputs == {NoId} \cup IdInputs
CreateResponseCall(r, fb, ai, cid, fail) ==
  /\ CanStart(r) /\ FaultOK(fail) /\ MemOnly(fail)
  /\ faults' = FaultCount(fail)
  /\ started' = started + 1
  /\ LET req == [Started("createResponse") EXCEPT
                   !.feedback = fb, !.ai = ai, !.id = cid]
     IN IF variant = "mem"
        THEN LET id == currentResponseId
                 feedbackResponse == MemNewResponse(id, fb, ai, cid)
             IN /\ currentResponseId' = id + 1
                /\ feedbackResp' = MapSet(feedbackResp, feedbackResponse)
                /\ reqs' = Arrive(r, Finish([req EXCEPT
                      !.resRec = feedbackResponse, !.writes = 1], "ok"))
                /\ respHanded' = respHanded \cup {id}
        ELSE /\ reqs' = Arrive(r, [req EXCEPT
                   !.pc = "write", !.data = ReadResponses(fail),
                   !.ioFailed = ReadFails(responsesFile, fail)])
             /\ UNCHANGED <<feedbackResp, currentResponseId, respHanded>>
  /\ UNCHANGED <<variant, calc, client, factConfigs, currentConfigId, fileVars, initPc,
                 openaiApiKey, cfgHanded>>

CreateResponseWrite(r, fail) ==
  /\ reqs[r].kind = "createResponse" /\ reqs[r].pc = "write" /\ FaultOK(fail)
  /\ faults' = FaultCount(fail)
  /\ LET data == reqs[r].data
         feedbackResponse ==
           FileNewResponse(data.nextId, reqs[r].feedback, reqs[r].ai,
                           reqs[r].id)
     IN /\ responsesFile' =
             WriteResponses(FileCreateResponse(data, reqs[r].feedback,
                                               reqs[r].ai, reqs[r].id),
                            fail)
        /\ reqs' = After(r, Finish([reqs[r] EXCEPT
              !.resRec = feedbackResponse, !.writes = 1,
              !.ioFailed = @ \/ WriteFails(fail)], "ok"))
        /\ respHanded' = respHanded \cup {data.nextId}
  /\ UNCHANGED <<variant, calc, client, memVars, dirExists, configFile, initPc, started,
                 openaiApiKey, cfgHanded>>

\* ------------------------------------------- the two stores side by side
\* One operation of the storage interface is called on a MemStorage (request
\* slot 1) and on a FileStorage (request slot 2) that both start freshly
\* seeded; each call runs to its end, and the slots hold what the two
\* returned.
MemSlot == 1
FileSlot == 2
Returns(kind, resCfg, resRec, resList, outcome) ==
  Finish([Started(kind) EXCEPT !.resCfg = resCfg, !.resRec = resRec,
                               !.resList = resList], outcome)
Both(mem, file) ==
  [r \in Reqs |-> IF r = MemSlot THEN mem
                  ELSE IF r = FileSlot THEN file ELSE IdleReq]
BothCanStart == variant = "both" /\ initPc = "done" /\ started < MaxReqs
bothUnchanged == <<variant, calc, client, dirExists, initPc, openaiApiKey,
                   faults, histVars>>

BothCreate(facts) ==
  /\ BothCanStart /\ started' = started + 1
  /\ LET id == currentConfigId
         data == ReadConfigurations(FALSE)
     IN /\ currentConfigId' = id + 1
        /\ factConfigs' = MapSet(factConfigs, NewConfig(id, facts))
        /\ configFile' =
             WriteConfigurations(FileCreateConfig(data, facts), FALSE)
        /\ reqs' = Both(Returns("create", NewConfig(id, facts), NoResponse,
                                <<>>, "ok"),
                        Returns("create", NewConfig(data.nextId, facts),
                                NoResponse, <<>>, "ok"))
  /\ UNCHANGED <<bothUnchanged, respStoreVars>>

BothUpdate(id, partial) ==
  /\ BothCanStart /\ started' = started + 1
  /\ LET existing == FindConfig(factConfigs, id)
         data == ReadConfigurations(FALSE)
         index == FindIndex(data.items, id)
         memUpdated == MemUpdated(existing, id, partial)
         fileUpdated == FileUpdated(data.items[index], id, partial)
     IN /\ factConfigs' = IF existing = NoConfig THEN factConfigs
                          ELSE MapSet(factConfigs, memUpdated)
        /\ configFile' =
             IF index = 0 THEN configFile
             ELSE WriteConfigurations(
                    MkData([data.items EXCEPT ![index] = fileUpdated],
                           data.nextId), FALSE)
        /\ reqs' = Both(IF existing = NoConfig
                        THEN Returns("update", NoConfig, NoResponse, <<>>,
                                     "notfound")
                        ELSE Returns("update", memUpdated, NoResponse, <<>>,
                                     "ok"),
                        IF index = 0
                        THEN Returns("update", NoConfig, NoResponse, <<>>,
                                     "notfound")
                        ELSE Returns("update", fileUpdated, NoResponse, <<>>,
                                     "ok"))
  /\ UNCHANGED <<bothUnchanged, currentConfigId, respStoreVars>>

BothGet(id) ==
  /\ BothCanStart /\ started' = started + 1
  /\ LET mem == FindConfig(factConfigs, id)
         file == FindConfig(ReadConfigurations(FALSE).items, id)
     IN reqs' = Both(Returns("get", mem, NoResponse, <<>>, Found(mem)),
                     Returns("get", file, NoResponse, <<>>, Found(file)))
  /\ UNCHANGED <<bothUnchanged, memVars, configFile, responsesFile>>

BothGetLatest ==
  /\ BothCanStart /\ started' = started + 1
  /\ LET mem == MemLatest(factConfigs)
         file == FileLatest(ReadConfigurations(FALSE).items)
     IN reqs' = Both(Returns("getLatest", mem, NoResponse, <<>>, Found(mem)),
                     Returns("getLatest", file, NoResponse, <<>>,
                             Found(file)))
  /\ UNCHANGED <<bothUnchanged, memVars, configFile, responsesFile>>

BothCreateResponse(fb, ai, cid) ==
  /\ BothCanStart /\ started' = started + 1
  /\ LET id == currentResponseId
         data == ReadResponses(FALSE)
     IN /\ currentResponseId' = id + 1
        /\ feedbackResp' = MapSet(feedbackResp, MemNewResponse(id, fb, ai, cid))
        /\ responsesFile' =
             WriteResponses(FileCreateResponse(data, fb, ai, cid), FALSE)
        /\ reqs' = Both(Returns("createResponse", NoConfig,
                                MemNewResponse(id, fb, ai, cid), <<>>, "ok"),
                        Returns("createResponse", NoConfig,
                                FileNewResponse(data.nextId, fb, ai, cid),
                                <<>>, "ok"))
  /\ UNCHANGED <<bothUnchanged, factConfigs, currentConfigId, configFile>>

BothGetResponse(id) ==
  /\ BothCanStart /\ started' = started + 1
  /\ LET mem == FindResponse(feedbackResp, id)
         file == FindResponse(ReadResponses(FALSE).items, id)
     IN reqs' = Both(Returns("getResponse", NoConfig, mem, <<>>,
                             IF mem = NoResponse THEN "notfound" ELSE "ok"),
                     Returns("getResponse", NoConfig, file, <<>>,
                             IF file = NoResponse THEN "notfound" ELSE "ok"))
  /\ UNCHANGED <<bothUnchanged, memVars, configFile, responsesFile>>

BothGetAll ==
  /\ BothCanStart /\ started' = started + 1
  /\ reqs' = Both(Returns("getAll", NoConfig, NoResponse, feedbackResp, "ok"),
                  Returns("getAll", NoConfig, NoResponse,
                          ReadResponses(FALSE).items, "ok"))
  /\ UNCHANGED <<bothUnchanged, memVars, configFile, responsesFile>>

\* ------------------------------------------------------------ the browser
\* FeedbackManager holds `configuration`; every edit sets it and starts a
\* timer that saves it a second later (the function that would clear the
\* timer is returned to nobody).  Requests and responses travel on their
\* own and may overtake each other.
stateVars == <<variant, factConfigs, currentConfigId, feedbackResp,
               currentResponseId, dirExists, configFile, responsesFile,
               initPc, reqs, started, openaiApiKey, faults, cfgHanded,
               respHanded, calc>>
MkMessage(no, kind, facts, feedbackText, configurationId) ==
  [no |-> no, kind |-> kind, facts |-> facts, feedbackText |-> feedbackText,
   configurationId |-> configurationId]

\* useQuery of GET /api/fact-configuration and the effect that takes its
\* data when there is no configuration yet
Load ==
  /\ client.configuration = NoConfig
  /\ GetLatest(FALSE) # NoConfig
  /\ client' = [client EXCEPT !.configuration = GetLatest(FALSE)]
  /\ UNCHANGED stateVars

\* handleConfigurationChange(newConfig): the editors pass the configuration
\* they were given with one fact group replaced
Edit(facts) ==
  /\ client.configuration # NoConfig
  /\ client.edits < MaxEdits
  /\ LET newConfig == NewConfig(client.configuration.id, facts)
     IN client' = [client EXCEPT !.configuration = newConfig,
                                 !.edits = @ + 1, !.lastEdit = facts,
                                 !.timers = Append(@, newConfig)]
  /\ UNCHANGED stateVars

\* the timer fires: updateConfigMutation.mutate(newConfig) posts the
\* configuration without its id
Save ==
  /\ client.timers # <<>>
  /\ client' = [client EXCEPT
       !.timers = Tail(@), !.sent = @ + 1,
       !.requests = @ \cup {MkMessage(client.sent + 1, "create",
                                      FactsOf(Head(client.timers)), "",
                                      NoId)}]
  /\ UNCHANGED stateVars

\* handleGenerateResponse: the feedback with the id of `configuration`
Generate(feedbackText) ==
  /\ client.configuration # NoConfig
  /\ ~FeedbackMissing(feedbackText)
  /\ client.sent + Len(client.timers) + (MaxEdits - client.edits) < MaxReqs
  /\ client' = [client EXCEPT
       !.sent = @ + 1,
       !.requests = @ \cup {MkMessage(client.sent + 1, "generate",
                                      FactsOf(client.configuration),
                                      feedbackText,
                                      client.configuration.id)}]
  /\ UNCHANGED stateVars

Taken(r, m) ==
  [client EXCEPT !.requests = @ \ {m},
                 !.atServer = [q \in Reqs |-> IF q = r THEN m.no
                                              ELSE IF InFlight(q) THEN @[q]
                                              ELSE 0]]
Replied(cl, r) ==
  IF reqs'[r].pc = "done" /\ reqs'[r].kind = "create"
  THEN [cl EXCEPT !.responses = @ \cup {[no |-> cl.atServer[r],
                                          data |-> reqs'[r].resCfg]},
                  !.atServer[r] = 0]
  ELSE cl

\* a request of the browser reaches the server
SaveArrives(r, m) ==
  /\ m \in client.requests /\ m.kind = "create"
  /\ CreateCallStep(r, m.facts, FALSE)
  /\ client' = Replied(Taken(r, m), r)
GenerateArrives(r, m) ==
  /\ m \in client.requests /\ m.kind = "generate"
  /\ GenCallStep(r, m.feedbackText, m.configurationId, FALSE)
  /\ client' = Taken(r, m)
\* FileStorage has written, the server replies
SaveWritten(r) ==
  /\ CreateWriteStep(r, FALSE)
  /\ client' = Replied(client, r)

\* a response reaches the browser: onSuccess sets `configuration` to it
Deliver(resp) ==
  /\ resp \in client.responses
  /\ client' = [client EXCEPT !.configuration = resp.data,
                              !.responses = @ \ {resp}]
  /\ UNCHANGED stateVars

\* ------------------------------------------------------ ScreenshotUpload
\* what /api/analyze-feedback-screenshot may extract from an image
ExtractedInputs ==
  { <<>>,
    << [category |-> "Rating", value |-> "5"] >>,
    << [category |-> "Name", value |-> "Ann"],
       [category |-> "Rating", value |-> "2"] >> }
\* facts.map((fact) => `${fact.category}: ${fact.value}`)
FactStrings(facts) ==
  [i \in 1..Len(facts) |-> <<facts[i].category, ": ", facts[i].value>>]
\* onFactsExtracted(factStrings), with the image the facts came from
Delivered(up, image, facts) ==
  [up EXCEPT !.delivered =
     Append(@, [image |-> image, facts |-> FactStrings(facts)])]

\* handleDrop / handleFileSelect: processImage up to the fetch
ProcessImage ==
  /\ client.upload.images < MaxImages
  /\ LET image == client.upload.images + 1
     IN client' = [client EXCEPT !.upload =
          [@ EXCEPT !.images = image, !.isProcessing = TRUE,
                    !.extractedFacts = <<>>, !.factsOf = 0,
                    !.reading = @ \cup {image},
                    !.analyzing = @ \cup {image}]]
  /\ UNCHANGED stateVars

\* reader.onload
ReaderLoaded(image) ==
  /\ image \in client.upload.reading
  /\ client' = [client EXCEPT !.upload =
       [@ EXCEPT !.previewUrl = image, !.reading = @ \ {image}]]
  /\ UNCHANGED stateVars

\* the response is ok: processImage from the fetch on
AnalyzeReturns(image, facts) ==
  /\ image \in client.upload.analyzing
  /\ client' = [client EXCEPT !.upload =
       Delivered([@ EXCEPT !.extractedFacts = facts, !.factsOf = image,
                           !.isProcessing = FALSE,
                           !.analyzing = @ \ {image}],
                 image, facts)]
  /\ UNCHANGED stateVars

\* the fetch fails or the response is not ok: catch and finally
AnalyzeFails(image) ==
  /\ image \in client.upload.analyzing
  /\ client' = [client EXCEPT !.upload =
       [@ EXCEPT !.isProcessing = FALSE, !.analyzing = @ \ {image}]]
  /\ UNCHANGED stateVars

PreviewShown == client.upload.previewUrl # 0 /\ ~client.upload.isProcessing
\* the button "Add Facts to Customer Profile", shown with the facts
HandleAddToCustomerFacts ==
  /\ PreviewShown /\ Len(client.upload.extractedFacts) > 0
  /\ client' = [client EXCEPT !.upload =
       Delivered([@ EXCEPT !.previewUrl = 0, !.extractedFacts = <<>>,
                           !.factsOf = 0],
                 client.upload.factsOf, client.upload.extractedFacts)]
  /\ UNCHANGED stateVars

\* the button on the preview
ClearUpload ==
  /\ PreviewShown
  /\ client' = [client EXCEPT !.upload =
       [@ EXCEPT !.previewUrl = 0, !.extractedFacts = <<>>, !.factsOf = 0]]
  /\ UNCHANGED stateVars

\* ------------------------------------------------ computations on texts
\* The handler's computations on texts are looked at alone, on inputs drawn
\* from bounded sets.  For the substitution a text is a sequence of tokens: a
\* placeholder, a replacement pattern of String.prototype.replace ("$&",
\* "$$") or a piece of plain text without braces and dollar signs.  For the
\* analytics a text is a sequence of characters.
RECURSIVE Flatten(_)
Flatten(ss) == IF ss = <<>> THEN <<>> ELSE Head(ss) \o Flatten(Tail(ss))
\* Array.prototype.join
RECURSIVE Join(_, _)
Join(items, sep) ==
  IF items = <<>> THEN <<>>
  ELSE IF Len(items) = 1 THEN items[1]
  ELSE items[1] \o <<sep>> \o Join(Tail(items), sep)

\* the placeholders, in the order the handler replaces them
Placeholders ==
  <<"{Restaurant Name}", "{Address}", "{Restaurant Type}", "{Brand tone}",
    "{Customer Name}", "{Gender}", "{Customer History}", "{Meal type}",
    "{Customer Feedback Text}", "{Restaurant Todo List Facts}",
    "{Customer Todo List Facts}">>
\* and the values they are replaced by
Values(config, feedbackText) ==
  <<config.restaurantFacts.name, config.restaurantFacts.address,
    config.restaurantFacts.type, config.restaurantFacts.brandTone,
    config.customerFacts.name, config.customerFacts.gender,
    config.customerFacts.history, config.customerFacts.meal,
    feedbackText, Join(config.restaurantFacts.todoFacts, ", "),
    Join(config.customerFacts.todoFacts, ", ")>>
\* String.prototype.replace with a string as replacement: "$&" stands for the
\* matched text and "$$" for "$"
GetSubstitution(matched, replacement) ==
  [i \in 1..Len(replacement) |->
     IF replacement[i] = "$&" THEN matched
     ELSE IF replacement[i] = "$$" THEN "$" ELSE replacement[i]]
\* prompt.replace(/\{...\}/g, value): every occurrence, left to right
Replace(prompt, placeholder, value) ==
  Flatten([i \in 1..Len(prompt) |->
             IF prompt[i] = placeholder
             THEN GetSubstitution(placeholder, value) ELSE <<prompt[i]>>])
\* the chain of replace calls from the k-th on
RECURSIVE ReplaceFrom(_, _, _)
ReplaceFrom(prompt, k, values) ==
  IF k > Len(Placeholders) THEN prompt
  ELSE ReplaceFrom(Replace(prompt, Placeholders[k], values[k]), k + 1, values)
\* a rendering that asks for an apology when the configuration says so
RenderedPrompt_WithApology(config, feedbackText) ==
  ReplaceFrom(config.systemFacts.promptTemplate, 1,
              Values(config, feedbackText))
    \o (IF config.systemFacts.includeApology THEN <<"Apologize.">> ELSE <<>>)
RenderedPrompt(config, feedbackText) ==
  ReplaceFrom(config.systemFacts.promptTemplate, 1,
              Values(config, feedbackText))

\* lengthGuidance[key]: an own property, a property every object inherits
\* from Object.prototype (a function, shown as its source text), or undefined
OwnGuidance ==
  [short |-> "Keep the response concise, around 2-3 sentences.",
   medium |-> "Provide a moderate length response, around 3-4 paragraphs.",
   detailed |-> "Provide a comprehensive response with detailed explanations."]
InheritedGuidance ==
  [constructor |-> "function Object() { [native code] }",
   toString |-> "function toString() { [native code] }"]
LengthGuidance(key) ==
  IF key \in DOMAIN OwnGuidance THEN OwnGuidance[key]
  ELSE IF key \in DOMAIN InheritedGuidance THEN InheritedGuidance[key]
  ELSE Undef
\* lengthGuidance[responseLength] || lengthGuidance.medium
Guidance(responseLength) ==
  IF LengthGuidance(responseLength) = Undef THEN OwnGuidance.medium
  ELSE LengthGuidance(responseLength)
\* prompt += `\n\n${...}`
WithGuidance(prompt, responseLength) ==
  prompt \o <<"\n\n", Guidance(responseLength)>>
MaxTokens(responseLength) ==
  IF responseLength = "detailed" THEN 1000
  ELSE IF responseLength = "short" THEN 200 ELSE 500
\* the instructions to the service, the same in every call
SystemRole ==
  "You are a professional customer relationship manager for restaurants. Generate thoughtful, personalized responses to customer feedback."
\* the argument of openai.chat.completions.create
CompletionRequest(prompt, responseLength) ==
  [model |-> "gpt-4o",
   messages |-> << [role |-> "system", content |-> <<SystemRole>>],
                   [role |-> "user", content |-> prompt] >>,
   max_tokens |-> MaxTokens(responseLength),
   temperature |-> "0.7"]
NoRequest == CompletionRequest(<<>>, "")

\* String.prototype.toLowerCase, on the letters of the inputs
UpperCase ==
  <<"A", "B", "C", "D", "E", "F", "G", "H", "I", "J", "K", "L",
    "M", "N", "O", "P", "Q", "R", "S", "T", "U", "V", "W", "X",
    "Y", "Z">>
LowerCase ==
  <<"a", "b", "c", "d", "e", "f", "g", "h", "i", "j", "k", "l",
    "m", "n", "o", "p", "q", "r", "s", "t", "u", "v", "w", "x",
    "y", "z">>
ToLowerCase(text) ==
  [i \in 1..Len(text) |->
     IF \E k \in 1..Len(UpperCase) : UpperCase[k] = text[i]
     THEN LowerCase[CHOOSE k \in 1..Len(UpperCase) : UpperCase[k] = text[i]]
     ELSE text[i]]
\* String.prototype.includes
Includes(text, word) ==
  \E i \in 0..(Len(text) - Len(word)) : SubSeq(text, i + 1, i + Len(word)) = word
PositiveWords ==
  { <<"g", "r", "e", "a", "t">>,
    <<"e", "x", "c", "e", "l", "l", "e", "n", "t">>,
    <<"a", "m", "a", "z", "i", "n", "g">>,
    <<"w", "o", "n", "d", "e", "r", "f", "u", "l">>,
    <<"o", "u", "t", "s", "t", "a", "n", "d", "i", "n", "g">> }
NegativeWords ==
  { <<"b", "a", "d">>,
    <<"t", "e", "r", "r", "i", "b", "l", "e">>,
    <<"a", "w", "f", "u", "l">>,
    <<"h", "o", "r", "r", "i", "b", "l", "e">> }
\* a sentiment that looks for the negative words first
Sentiment_NegativeFirst(feedbackText) ==
  IF \E word \in NegativeWords : Includes(ToLowerCase(feedbackText), word)
  THEN "Negative"
  ELSE IF \E word \in PositiveWords : Includes(ToLowerCase(feedbackText), word)
  THEN "Positive"
  ELSE "Neutral"
Sentiment(feedbackText) ==
  IF \E word \in PositiveWords : Includes(ToLowerCase(feedbackText), word)
  THEN "Positive"
  ELSE IF \E word \in NegativeWords : Includes(ToLowerCase(feedbackText), word)
  THEN "Negative"
  ELSE "Neutral"
\* aiResponse.split(/\s+/).length: one more than the runs of white space
WhiteSpace == {" ", "\n", "\t"}
WordCount(aiResponse) ==
  1 + Cardinality({i \in 1..Len(aiResponse) :
                     /\ aiResponse[i] \in WhiteSpace
                     /\ (i = 1 \/ aiResponse[i - 1] \notin WhiteSpace)})

\* -- inputs of the computations
TemplateTokens ==
  {Placeholders[k] : k \in 1..Len(Placeholders)} \cup {"Dear", "{Unknown}"}
TemplateInputs == UNION {[1..n -> TemplateTokens] : n \in 0..MaxTemplate}
NameInputs == {<<"Bistro">>, <<"{Address}">>, <<"$&">>}
TodoInputs == {<<>>, << <<"vegan">>, <<"allergy">> >>}
FeedbackTokenInputs ==
  {<<"Nice">>, <<"{Restaurant Name}">>, <<"{Customer Todo List Facts}">>}
LengthInputs == {"short", "medium", "detailed", "", "long", "constructor"}
FlagInputs ==
  [includeApology : BOOLEAN, includeMarketing : BOOLEAN,
   multipleResponses : BOOLEAN]
NoFlags ==
  [includeApology |-> FALSE, includeMarketing |-> FALSE,
   multipleResponses |-> FALSE]
MkFacts(name, todoFacts, promptTemplate, responseLength, flags) ==
  [restaurantFacts |->
     [name |-> name, address |-> <<"Main St">>, type |-> <<"Italian">>,
      brandTone |-> <<"warm">>, todoFacts |-> << <<"parking">> >>],
   customerFacts |->
     [name |-> <<"John">>, gender |-> <<"male">>, history |-> <<"regular">>,
      meal |-> <<"dinner">>, todoFacts |-> todoFacts],
   systemFacts |->
     [promptTemplate |-> promptTemplate, responseLength |-> responseLength,
      includeApology |-> flags.includeApology,
      includeMarketing |-> flags.includeMarketing,
      multipleResponses |-> flags.multipleResponses]]
MkPrompt(config, feedbackText) ==
  [kind |-> "prompt", pc |-> "start", config |-> config,
   feedbackText |-> feedbackText, rendered |-> <<>>, prompt |-> <<>>,
   max_tokens |-> 0, request |-> NoRequest]
\* every combination of values, with the flags off
PromptInputs ==
  {MkPrompt(MkFacts(name, todoFacts, promptTemplate, responseLength, NoFlags),
            feedbackText) :
     name \in NameInputs, todoFacts \in TodoInputs,
     promptTemplate \in TemplateInputs, responseLength \in LengthInputs,
     feedbackText \in FeedbackTokenInputs}
\* every combination of flags, with one choice of values
FlaggedInputs ==
  {MkPrompt(MkFacts(<<"Bistro">>, <<>>, promptTemplate, "medium", flags),
            <<"Nice">>) :
     promptTemplate \in TemplateInputs, flags \in FlagInputs}
Fragments ==
  { <<"g", "r", "e", "a", "t">>,
    <<"E", "x", "c", "e", "l", "l", "e", "n", "t">>,
    <<"A", "M", "A", "Z", "I", "N", "G">>,
    <<"w", "o", "n", "d", "e", "r", "f", "u", "l">>,
    <<"o", "u", "t", "s", "t", "a", "n", "d", "i", "n", "g">>,
    <<"b", "a", "d">>,
    <<"T", "e", "r", "r", "i", "b", "l", "e">>,
    <<"a", "w", "f", "u", "l">>,
    <<"H", "O", "R", "R", "I", "B", "L", "E">>,
    <<"g", "r", "e">>,
    <<"a", "t">>,
    <<"B">>,
    <<"a", "d">>,
    <<" ">>,
    <<"v", "i", "s", "i", "t", "e", "d">> }
FeedbackTexts ==
  {Flatten(fs) : fs \in UNION {[1..n -> Fragments] : n \in 0..MaxFrags}}
AiTexts ==
  { <<"T", "h", "a", "n", "k", " ", "y", "o", "u", "!">>,
    <<"S", "o", " ", " ", "s", "o", "r", "r", "y", ",", "\n", "t", "e", "r", "r", "i", "b", "l", "e">>,
    <<" ", "g", "r", "e", "a", "t", " ">>,
    <<>> }
AnalyticsInputs ==
  {[kind |-> "analytics", pc |-> "start", feedbackText |-> feedbackText,
    aiResponse |-> aiResponse, wordCount |-> 0, sentiment |-> ""] :
     feedbackText \in FeedbackTexts, aiResponse \in AiTexts}

serverVars == <<variant, factConfigs, currentConfigId, feedbackResp,
                currentResponseId, dirExists, configFile, responsesFile,
                initPc, reqs, started, openaiApiKey, faults, cfgHanded,
                respHanded>>

\* POST /api/generate-response: the prompt, the token budget and the call
\* of the service
BuildPrompt ==
  /\ calc.kind = "prompt" /\ calc.pc = "start"
  /\ LET prompt == RenderedPrompt(calc.config, calc.feedbackText)
         responseLength == calc.config.systemFacts.responseLength
     IN calc' = [calc EXCEPT !.pc = "done", !.rendered = prompt,
                             !.prompt = WithGuidance(prompt, responseLength),
                             !.max_tokens = MaxTokens(responseLength),
                             !.request =
                               CompletionRequest(
                                 WithGuidance(prompt, responseLength),
                                 responseLength)]
  /\ UNCHANGED <<serverVars, client>>

\* POST /api/generate-response: the analytics of the reply
Analytics ==
  /\ calc.kind = "analytics" /\ calc.pc = "start"
  /\ calc' = [calc EXCEPT !.pc = "done",
                          !.wordCount = WordCount(calc.aiResponse),
                          !.sentiment = Sentiment(calc.feedbackText)]
  /\ UNCHANGED <<serverVars, client>>

\* ------------------------------------------------------- specifications
NoFaults == {FALSE}
AnyFault == BOOLEAN

\* the un-awaited ensureDataDirectory() the FileStorage constructor starts
InitStep(Fails) ==
  \E fail \in Fails :
    \/ InitMkdir(fail)
    \/ InitAccessConfig(fail)
    \/ InitWriteConfig(fail)
    \/ InitAccessResponses(fail)
    \/ InitWriteResponses(fail)

Call(r, Fails) ==
  \E fail \in Fails :
    \/ \E facts \in FactsInputs : CreateCall(r, facts, fail)
    \/ \E id \in IdInputs, partial \in PartialInputs :
         UpdateCall(r, id, partial, fail)
    \/ \E id \in IdInputs : GetCall(r, id, fail)
    \/ GetLatestCall(r, fail)
    \/ \E fb \in FeedbackInputs, cid \in CidInputs :
         GenCall(r, fb, cid, fail)

Continue(r, Fails) ==
  \E fail \in Fails :
    \/ CreateWrite(r, fail)
    \/ UpdateWrite(r, fail)
    \/ \E out \in AiOutputs : GenLLM(r, out, fail)
    \/ GenSave(r, fail)

\* Requests arrive at any time, also while others are in flight and while
\* ensureDataDirectory is still running; the file system itself never fails.
Next ==
  \/ InitStep(NoFaults)
  \/ \E r \in Reqs : Call(r, NoFaults) \/ Continue(r, NoFaults)
Spec == Init /\ [][Next]_vars

\* One request at a time, the first after ensureDataDirectory has finished;
\* the file system never fails.
Quiet == initPc = "done" /\ \A r \in Reqs : ~InFlight(r)
SeqCall(r, Fails) ==
  \E fail \in Fails :
    \/ Quiet /\ \E facts \in FactsInputs : CreateCall(r, facts, fail)
    \/ Quiet /\ \E id \in IdInputs, partial \in PartialInputs :
                  UpdateCall(r, id, partial, fail)
    \/ Quiet /\ \E id \in IdInputs : GetCall(r, id, fail)
    \/ Quiet /\ GetLatestCall(r, fail)
    \/ Quiet /\ \E fb \in FeedbackInputs, cid \in CidInputs :
                  GenCall(r, fb, cid, fail)
SeqNext ==
  \/ InitStep(NoFaults)
  \/ \E r \in Reqs : SeqCall(r, NoFaults) \/ Continue(r, NoFaults)
SeqSpec == Init /\ [][SeqNext]_vars

\* One request at a time, and up to MaxFaults file-system operations fail.
FaultNext ==
  \/ InitStep(AnyFault)
  \/ \E r \in Reqs : SeqCall(r, AnyFault) \/ Continue(r, AnyFault)
FaultSpec == Init /\ [][FaultNext]_vars

\* The operations of the storage interface called one at a time on the store
\* itself, after ensureDataDirectory has finished; the file system never
\* fails.
StoreCall(r) ==
  \/ Quiet /\ \E facts \in FactsInputs : CreateCall(r, facts, FALSE)
  \/ Quiet /\ \E id \in IdInputs, partial \in PartialInputs :
                UpdateCall(r, id, partial, FALSE)
  \/ Quiet /\ \E id \in IdInputs : GetCall(r, id, FALSE)
  \/ Quiet /\ GetLatestCall(r, FALSE)
  \/ Quiet /\ \E fb \in FeedbackInputs \ {""}, ai \in AiOutputs \ {AiThrows, ""},
                  cid \in ResponseCidInputs :
                CreateResponseCall(r, fb, ai, cid, FALSE)
StoreContinue(r) ==
  \/ CreateWrite(r, FALSE)
  \/ UpdateWrite(r, FALSE)
  \/ CreateResponseWrite(r, FALSE)
StoreNext ==
  \/ InitStep(NoFaults)
  \/ \E r \in Reqs : StoreCall(r) \/ StoreContinue(r)
StoreSpec == Init /\ [][StoreNext]_vars

\* A MemStorage and a FileStorage, both freshly seeded, are given the same
\* operations one after the other; the file system never fails.
BothInit ==
  /\ variant = "both"
  /\ factConfigs = <<DefaultConfig>>
  /\ currentConfigId = FirstId + 1
  /\ feedbackResp = <<>>
  /\ currentResponseId = FirstId
  /\ dirExists = FALSE
  /\ configFile = NoFile
  /\ responsesFile = NoFile
  /\ initPc = "mkdir"
  /\ reqs = [r \in Reqs |-> IdleReq]
  /\ started = 0
  /\ openaiApiKey = "sk-live"
  /\ faults = 0
  /\ cfgHanded = {FirstId}
  /\ respHanded = {}
  /\ calc = NoCalc
  /\ client = NoClient
BothNext ==
  \/ InitStep(NoFaults)
  \/ \E facts \in FactsInputs : BothCreate(facts)
  \/ \E id \in IdInputs, partial \in PartialInputs : BothUpdate(id, partial)
  \/ \E id \in IdInputs : BothGet(id)
  \/ BothGetLatest
  \/ \E fb \in FeedbackInputs \ {""}, ai \in AiOutputs \ {AiThrows, ""},
        cid \in ResponseCidInputs : BothCreateResponse(fb, ai, cid)
  \/ \E id \in IdInputs : BothGetResponse(id)
  \/ BothGetAll
BothSpec == BothInit /\ [][BothNext]_vars

\* The browser and the server: the page loads, the user edits and asks for
\* responses, messages overtake each other; the file system never fails.
ClientNext ==
  \/ InitStep(NoFaults)
  \/ Load
  \/ \E facts \in FactsInputs : Edit(facts)
  \/ Save
  \/ \E fb \in FeedbackInputs : Generate(fb)
  \/ \E r \in Reqs, m \in client.requests : SaveArrives(r, m)
  \/ \E r \in Reqs, m \in client.requests : GenerateArrives(r, m)
  \/ \E r \in Reqs : SaveWritten(r)
  \/ \E resp \in client.responses : Deliver(resp)
  \/ \E r \in Reqs, out \in AiOutputs : GenLLM(r, out, FALSE)
  \/ \E r \in Reqs : GenSave(r, FALSE)
ClientSpec == Init /\ [][ClientNext]_vars

\* The upload component alone: images are dropped at any time, the reader
\* and the analysis of each finish in any order, the user presses the
\* buttons that are shown.
UploadInit ==
  /\ InitServer /\ variant = "mem" /\ openaiApiKey = "sk-live"
  /\ calc = NoCalc /\ client = NoClient
UploadNext ==
  \/ ProcessImage
  \/ \E image \in 1..MaxImages : ReaderLoaded(image)
  \/ \E image \in 1..MaxImages, facts \in ExtractedInputs :
       AnalyzeReturns(image, facts)
  \/ \E image \in 1..MaxImages : AnalyzeFails(image)
  \/ HandleAddToCustomerFacts
  \/ ClearUpload
UploadSpec == UploadInit /\ [][UploadNext]_vars

\* The computations on texts of one generation request, on any input.
CalcInit ==
  /\ InitServer /\ variant = "mem" /\ openaiApiKey = "sk-live"
  /\ client = NoClient
  /\ \/ calc \in PromptInputs
     \/ calc \in FlaggedInputs
     \/ calc \in AnalyticsInputs
CalcNext == BuildPrompt \/ Analytics
CalcSpec == CalcInit /\ [][CalcNext]_vars

\* ------------------------------------------------------------ properties
\* a request arrives in this step and takes slot r
Called(r) == started' = started + 1 /\ CanStart(r)
\* the handler of request r replies in this step
Returned(r) == reqs'[r].pc = "done" /\ (Called(r) \/ InFlight(r))
CreateReturned(r) == Returned(r) /\ reqs'[r].kind = "create"
GenerateSucceeded(r) ==
  Returned(r) /\ reqs'[r].kind = "generate" /\ reqs'[r].outcome = "ok"
\* the record of s with the highest id, NoConfig for an empty s
WithHighestId(s) ==
  IF Ids(s) = {} THEN NoConfig
  ELSE CHOOSE c \in {s[i] : i \in 1..Len(s)} : \A id \in Ids(s) : id <= c.id

\* C1: in both stores and both variants, requests that come one after the
\* other get identifiers that are strictly increasing in creation order: the
\* id a create returns is greater than every id a create returned before, and
\* no record of the store holds it already.
C1_FreshId(r) ==
  /\ CreateReturned(r) =>
       /\ \A id \in cfgHanded : id < reqs'[r].resCfg.id
       /\ reqs'[r].resCfg.id \notin Ids(ConfigStore)
  /\ GenerateSucceeded(r) =>
       /\ \A id \in respHanded : id < reqs'[r].resRec.id
       /\ reqs'[r].resRec.id \notin Ids(ResponseStore)
C1_IdsStrictlyIncreasing == [][\A r \in Reqs : C1_FreshId(r)]_vars
\* two configurations and a response record were created one after the other
\* in the file-backed store
C1_Witness ==
  /\ variant = "file" /\ cfgHanded = {2, 3} /\ respHanded = {1}
  /\ \E r \in Reqs : reqs[r].pc = "done" /\ reqs[r].resRec.id = 1

\* C2: two create calls that overlap in time return distinct identifiers, and
\* once both have finished the store holds both created records.  (Two
\* finished requests are in `reqs` together only if they overlapped; requests
\* that arrived during ensureDataDirectory are left out.)
C2_BothCreated(r, q) ==
  /\ (reqs[r].kind = "create" /\ reqs[q].kind = "create") =>
       /\ reqs[r].resCfg.id # reqs[q].resCfg.id
       /\ FindConfig(ConfigStore, reqs[r].resCfg.id) = reqs[r].resCfg
  /\ (reqs[r].kind = "generate" /\ reqs[q].kind = "generate") =>
       /\ reqs[r].resRec.id # reqs[q].resRec.id
       /\ FindResponse(ResponseStore, reqs[r].resRec.id) = reqs[r].resRec
C2_OverlappingCreatesAtomic ==
  \A r, q \in Reqs :
    (/\ r # q
     /\ reqs[r].pc = "done" /\ reqs[r].outcome = "ok" /\ reqs[r].afterInit
     /\ reqs[q].pc = "done" /\ reqs[q].outcome = "ok" /\ reqs[q].afterInit)
    => C2_BothCreated(r, q)

\* C3: a response record, at the moment it is created, carries the id of a
\* configuration that the configuration store holds at that moment.
\* (Requests that arrived during ensureDataDirectory are left out.)
C3_ConfigurationPresentAtCreation ==
  [][\A r \in Reqs :
       (GenerateSucceeded(r) /\ reqs'[r].afterInit)
       => reqs'[r].resRec.configurationId \in Ids(ConfigStore)]_vars

\* C4: a generation request with empty feedbackText ends at once with the
\* input-validation error; the text-generation service is not called and the
\* response store, records and counter, stays as it was.
C4_EmptyFeedbackRejected ==
  [][\A r \in Reqs :
       (Called(r) /\ reqs'[r].kind = "generate" /\ reqs'[r].feedback = "")
       => /\ reqs'[r].pc = "done"
          /\ reqs'[r].outcome = "validation"
          /\ reqs'[r].calls = 0
          /\ reqs'[r].writes = 0
          /\ UNCHANGED <<respStoreVars, respHanded>>]_vars
\* an empty feedback was rejected while the store held a response record
C4_Witness ==
  \E r \in Reqs :
    /\ reqs[r].kind = "generate" /\ reqs[r].pc = "done"
    /\ reqs[r].feedback = "" /\ reqs[r].outcome = "validation"
    /\ Len(ResponseStore) = 1

\* C5: when the text-generation service throws or returns no content, the
\* request ends with the dependency error after that single call, and the
\* response store, records and counter, stays as it was.
C5_CollaboratorFailureIsTerminal ==
  [][\A r \in Reqs :
       (/\ reqs[r].pc = "llm" /\ reqs'[r] # reqs[r]
        /\ reqs'[r].ai \in {AiThrows, ""})
       => /\ reqs'[r].pc = "done"
          /\ reqs'[r].outcome = "dependency"
          /\ reqs'[r].calls = 1
          /\ reqs'[r].writes = 0
          /\ UNCHANGED <<respStoreVars, respHanded>>]_vars
\* the service returned no content and the request ended with the error
\* while the store held a response record
C5_Witness ==
  \E r \in Reqs :
    /\ reqs[r].kind = "generate" /\ reqs[r].pc = "done"
    /\ reqs[r].calls = 1 /\ reqs[r].ai = ""
    /\ reqs[r].outcome = "dependency"
    /\ Len(ResponseStore) = 1

\* C6: a generation request that supplies a configurationId, whatever its
\* value, works with the store's record of that id, and one that supplies
\* none works with the record of the highest id; when there is no such record
\* the request ends with not-found, without a call of the text-generation
\* service and without a change of the response store.
C6_Resolved(r) ==
  LET cid == reqs'[r].id
      expected == IF cid = Absent THEN WithHighestId(ConfigStore)
                  ELSE FindConfig(ConfigStore, cid)
  IN /\ reqs'[r].config = expected
     /\ expected = NoConfig =>
          /\ reqs'[r].pc = "done"
          /\ reqs'[r].outcome = "notfound"
          /\ reqs'[r].calls = 0
          /\ UNCHANGED <<respStoreVars, respHanded>>
C6_ExplicitIdIsLookedUp ==
  [][\A r \in Reqs :
       (Called(r) /\ reqs'[r].kind = "generate" /\ reqs'[r].feedback # "")
       => C6_Resolved(r)]_vars

\* C7: a successful generation request adds exactly one record to the
\* response store: feedbackText, aiResponse and configurationId are the
\* request's feedback, the service's text and the resolved configuration's
\* id, and looking the returned id up gives the returned record.
\* (Requests that arrived during ensureDataDirectory are left out.)
C7_Created(r) ==
  LET rec == reqs'[r].resRec
  IN /\ rec.id \notin Ids(ResponseStore)
     /\ ResponseStore' = Append(ResponseStore, rec)
     /\ rec.feedbackText = reqs'[r].feedback
     /\ rec.aiResponse = reqs'[r].ai
     /\ rec.configurationId = reqs'[r].config.id
     /\ FindResponse(ResponseStore', rec.id) = rec
C7_ExactlyOneRecord ==
  [][\A r \in Reqs :
       (GenerateSucceeded(r) /\ reqs'[r].afterInit) => C7_Created(r)]_vars

\* C8: a get, getLatest, create or update whose read or write of the file
\* failed does not report success.
C8_FailureSurfaced ==
  \A r \in Reqs :
    (/\ reqs[r].pc = "done" /\ reqs[r].ioFailed
     /\ reqs[r].kind \in {"get", "getLatest", "create", "update"})
    => reqs[r].outcome # "ok"

\* C9: on a fresh instance, as long as no create has handed out an id of its
\* own, getLatest answers with the configuration of id 1 and never with
\* not-found, also while ensureDataDirectory is still running.
C9_SeededFromConstruction ==
  [][\A r \in Reqs :
       (/\ Called(r) /\ reqs'[r].kind = "getLatest"
        /\ cfgHanded \subseteq {FirstId})
       => /\ reqs'[r].outcome = "ok"
          /\ reqs'[r].resCfg.id = FirstId]_vars

\* C10: getLatest answers with the record of the highest id among those in
\* the store, and with not-found exactly when the store is empty.
C10_LatestIsHighest ==
  [][\A r \in Reqs :
       (Called(r) /\ reqs'[r].kind = "getLatest")
       => /\ reqs'[r].resCfg = WithHighestId(ConfigStore)
          /\ reqs'[r].outcome = "notfound" <=> ConfigStore = <<>>]_vars
\* after a create and an update of configuration 1, getLatest answered with
\* configuration 2 of the file-backed store
C10_Witness ==
  \E r \in Reqs :
    /\ variant = "file"
    /\ reqs[r].kind = "getLatest" /\ reqs[r].pc = "done"
    /\ reqs[r].resCfg.id = 2 /\ Ids(ConfigStore) = {1, 2}
    /\ FindConfig(ConfigStore, 1) # DefaultConfig

\* C11: configurations are never deleted: an id that create has returned and
\* that the store holds is still held by the store after every step, also
\* after a step of an operation whose read of the file failed.
C11_NeverDeleted ==
  [][\A id \in cfgHanded \cap Ids(ConfigStore) : id \in Ids(ConfigStore')]_vars

\* C12: the response store is append-only: a record that create has returned
\* and that the store holds is, after every step of any operation on either
\* store, still what getFeedbackResponse returns for its id and still an
\* element of what getAllFeedbackResponses returns, with every field as it
\* was.
C12_AppendOnly ==
  [][\A rec \in {ResponseStore[i] : i \in 1..Len(ResponseStore)} :
       rec.id \in respHanded =>
         /\ GetFeedbackResponse(rec.id, FALSE)' = rec
         /\ \E j \in 1..Len(GetAllFeedbackResponses(FALSE)') :
              GetAllFeedbackResponses(FALSE)'[j] = rec]_vars
\* two records were created in the file-backed store and a configuration was
\* saved after them
C12_Witness ==
  /\ variant = "file" /\ respHanded = {1, 2} /\ Len(ResponseStore) = 2
  /\ \E r \in Reqs : reqs[r].kind = "create" /\ reqs[r].pc = "done"

FactGroups == {"restaurantFacts", "customerFacts", "systemFacts"}

\* C13: an update of an existing id returns a configuration with the same id
\* in which every fact group that was supplied is replaced and every fact
\* group that was absent or undefined is as it was; the store holds the
\* returned configuration in the place of the old one, and every other
\* configuration, their number and the identifier counter are unchanged.
C13_Updated(r) ==
  LET id == reqs'[r].id
      old == FindConfig(ConfigStore, id)
      new == reqs'[r].resCfg
      partial == reqs'[r].partial
  IN /\ new.id = id
     /\ \A g \in FactGroups :
          new[g] = IF partial[g] \in {Missing, Undef} THEN old[g]
                   ELSE partial[g]
     /\ ConfigStore' = [ConfigStore EXCEPT ![FindIndex(ConfigStore, id)] = new]
     /\ ConfigCounter' = ConfigCounter
C13_UpdateKeepsUnsupplied ==
  [][\A r \in Reqs :
       (Returned(r) /\ reqs'[r].kind = "update" /\ reqs'[r].outcome = "ok")
       => C13_Updated(r)]_vars

\* C14: an update of an id that no configuration of the store has ends with
\* not-found and writes nothing: the configurations, the identifier counter
\* and the ids handed out so far are unchanged, and no configuration is
\* created.
C14_UpdateNotFound ==
  [][\A r \in Reqs :
       (/\ Called(r) /\ reqs'[r].kind = "update"
        /\ reqs'[r].id \notin Ids(ConfigStore))
       => /\ reqs'[r].pc = "done"
          /\ reqs'[r].outcome = "notfound"
          /\ reqs'[r].resCfg = NoConfig
          /\ reqs'[r].writes = 0
          /\ ConfigStore' = ConfigStore
          /\ ConfigCounter' = ConfigCounter
          /\ cfgHanded' = cfgHanded]_vars
\* an update of id 2 ended with not-found in a file-backed store that holds
\* configuration 1 only
C14_Witness ==
  \E r \in Reqs :
    /\ variant = "file" /\ Ids(ConfigStore) = {1}
    /\ reqs[r].kind = "update" /\ reqs[r].pc = "done"
    /\ reqs[r].id = 2 /\ reqs[r].outcome = "notfound"

\* C15: a configuration save creates a configuration whose id was not used
\* before, adds it to the store and leaves every earlier configuration as it
\* was, and getLatest then returns the new configuration.  (Requests that
\* arrived during ensureDataDirectory are left out.)
C15_Saved(r) ==
  LET new == reqs'[r].resCfg
  IN /\ new.id \notin cfgHanded \cup Ids(ConfigStore)
     /\ ConfigStore' = Append(ConfigStore, new)
     /\ GetLatest(FALSE)' = new
C15_SaveCreatesNew ==
  [][\A r \in Reqs :
       (CreateReturned(r) /\ reqs'[r].afterInit) => C15_Saved(r)]_vars

PlaceholderIndex(token) ==
  IF \E k \in 1..Len(Placeholders) : Placeholders[k] = token
  THEN CHOOSE k \in 1..Len(Placeholders) : Placeholders[k] = token
  ELSE 0
Substituted(template, values) ==
  Flatten([i \in 1..Len(template) |->
             IF PlaceholderIndex(template[i]) = 0 THEN <<template[i]>>
             ELSE values[PlaceholderIndex(template[i])]])
PromptBuilt == calc.kind = "prompt" /\ calc.pc = "done"
\* C17: the rendered prompt is the template with every occurrence of every
\* recognized placeholder replaced by its value and all other text left as
\* it is, whatever the values contain.
C17_RenderedIsSubstituted ==
  PromptBuilt =>
    calc.rendered = Substituted(calc.config.systemFacts.promptTemplate,
                                Values(calc.config, calc.feedbackText))

\* ---- C18
Occurrences(text, piece) ==
  Cardinality({i \in 1..(Len(text) - Len(piece) + 1) :
                 SubSeq(text, i, i + Len(piece) - 1) = piece})
RecognizedAt(template) ==
  {i \in 1..Len(template) : PlaceholderIndex(template[i]) # 0}
\* C18: a template that contains one recognized placeholder P, once, renders
\* to a text that contains the value V of P exactly once and no literal P
\* (for a V that is not empty and does not itself contain P).
C18_ValueOnceAndNoPlaceholder ==
  PromptBuilt =>
    LET template == calc.config.systemFacts.promptTemplate
        values == Values(calc.config, calc.feedbackText)
    IN \A i \in RecognizedAt(template) :
         LET P == template[i]
             V == values[PlaceholderIndex(P)]
         IN (RecognizedAt(template) = {i} /\ V # <<>>
             /\ Occurrences(V, <<P>>) = 0)
            => /\ Occurrences(calc.rendered, V) = 1
               /\ Occurrences(calc.rendered, <<P>>) = 0

\* ---- C19
\* the rows of the length policy: instruction and token budget
PolicyRow(responseLength) ==
  IF responseLength = "short"
  THEN <<"Keep the response concise, around 2-3 sentences.", 200>>
  ELSE IF responseLength = "detailed"
  THEN <<"Provide a comprehensive response with detailed explanations.", 1000>>
  ELSE <<"Provide a moderate length response, around 3-4 paragraphs.", 500>>
\* C19: the prompt is the rendered prompt, a blank line and the instruction
\* of the row of responseLength, and the token budget is that of the same
\* row; every value other than short, medium and detailed has the medium row.
C19_LengthPolicy ==
  PromptBuilt =>
    LET row == PolicyRow(calc.config.systemFacts.responseLength)
    IN /\ calc.prompt = calc.rendered \o <<"\n\n", row[1]>>
       /\ calc.max_tokens = row[2]

\* ---- C20
\* the same letter, in either case
SameLetter(a, b) ==
  \/ a = b
  \/ \E k \in 1..Len(UpperCase) : {a, b} = {UpperCase[k], LowerCase[k]}
\* the text contains the word, whatever the case of its letters
ContainsAnyCase(text, word) ==
  \E i \in 0..(Len(text) - Len(word)) :
     \A k \in 1..Len(word) : SameLetter(text[i + k], word[k])
HasPositive(text) == \E word \in PositiveWords : ContainsAnyCase(text, word)
HasNegative(text) == \E word \in NegativeWords : ContainsAnyCase(text, word)
AnalyticsDone == calc.kind = "analytics" /\ calc.pc = "done"
TokenCount(text) ==
  Cardinality({i \in 1..Len(text) :
                 /\ text[i] \notin WhiteSpace
                 /\ (i = 1 \/ text[i - 1] \in WhiteSpace)})
\* C21: the word count reported for a generated text that is not empty is
\* the number of its whitespace-delimited tokens, also when the text starts
\* or ends with white space.
C21_WordCountIsTokenCount ==
  (AnalyticsDone /\ calc.aiResponse # <<>>) =>
    calc.wordCount = TokenCount(calc.aiResponse)

\* ---- C22
\* the configuration with the advisory flags off
WithoutFlags(config) ==
  [config EXCEPT !.systemFacts.includeApology = FALSE,
                 !.systemFacts.includeMarketing = FALSE,
                 !.systemFacts.multipleResponses = FALSE]
\* what the handler sends to the service for a configuration and a feedback
RequestFor(config, feedbackText) ==
  CompletionRequest(
    WithGuidance(RenderedPrompt(config, feedbackText),
                 config.systemFacts.responseLength),
    config.systemFacts.responseLength)
CreateResponseReturned(r) == Returned(r) /\ reqs'[r].kind = "createResponse"
\* C23: createFeedbackResponse stores and returns the record with the
\* fallback configurationId when the record has none and with the
\* configurationId of the record otherwise, in MemStorage and in FileStorage.
C23_FallbackConfigurationId ==
  [][\A r \in Reqs :
       CreateResponseReturned(r) =>
         LET returned == reqs'[r].resRec
             configurationId == reqs'[r].id
         IN /\ returned.configurationId =
                 IF configurationId = NoId THEN FallbackConfigId
                 ELSE configurationId
            /\ FindResponse(ResponseStore', returned.id) = returned]_vars

\* ---- C24
\* C24: the record a generation request creates has the configurationId of
\* the configuration the handler resolved, and the prompt was built from the
\* facts of that same configuration, whatever other requests did while the
\* call of the service was in flight.
C24_OneSnapshot ==
  [][\A r \in Reqs :
       GenerateSucceeded(r) =>
         /\ reqs'[r].resRec.configurationId = reqs'[r].config.id
         /\ reqs'[r].prompt = FactsOf(reqs'[r].config)
         /\ reqs'[r].config # NoConfig]_vars
\* a generation request and an update of the configuration it resolved
\* overlapped: the record names the configuration the prompt was built from,
\* whose facts in the store have changed since
C24_Witness ==
  \E r, q \in Reqs :
    /\ reqs[r].kind = "generate" /\ reqs[r].pc = "done"
    /\ reqs[r].outcome = "ok"
    /\ reqs[q].kind = "update" /\ reqs[q].pc = "done" /\ reqs[q].outcome = "ok"
    /\ reqs[q].id = reqs[r].config.id
    /\ reqs[r].resRec.configurationId = reqs[r].config.id
    /\ FindConfig(ConfigStore, reqs[r].config.id) # NoConfig
    /\ FactsOf(FindConfig(ConfigStore, reqs[r].config.id)) # reqs[r].prompt

\* ---- C25
\* C25: on a fresh FileStorage, a configuration created by the only request
\* so far, which arrived while ensureDataDirectory was still running, is
\* returned by getFactConfiguration under the id that create returned, once
\* both have finished.
C25_CreatedDuringInitIsKept ==
  \A r \in Reqs :
    (/\ variant = "file" /\ started = 1 /\ initPc = "done"
     /\ reqs[r].kind = "create" /\ reqs[r].pc = "done"
     /\ ~reqs[r].afterInit)
    => GetConfig(reqs[r].resCfg.id, FALSE) = reqs[r].resCfg

\* ---- C26
\* every edit has been made and every save it scheduled has been sent,
\* handled by the server and answered, and the answer has been delivered
SavesCompleted ==
  /\ client.edits >= 1
  /\ client.timers = <<>>
  /\ \A m \in client.requests : m.kind # "create"
  /\ \A r \in Reqs : ~(InFlight(r) /\ reqs[r].kind = "create")
  /\ client.responses = {}
\* C26: once every save scheduled by the edits has completed, the page's
\* configuration and the server's latest configuration both hold the facts
\* of the last edit, in whatever order requests arrived and responses were
\* delivered.
C26_LastEditWins ==
  SavesCompleted =>
    /\ FactsOf(client.configuration) = client.lastEdit
    /\ FactsOf(GetLatest(FALSE)) = client.lastEdit

\* ---- C27
\* C27: the configuration the server renders for a generation request of the
\* page, the one with the configurationId the page sent, has the facts the
\* editor showed when the request was sent.
C27_ServerRendersShownFacts ==
  [][\A r \in Reqs : \A m \in client.requests :
       (/\ m.kind = "generate"
        /\ Called(r) /\ reqs'[r].kind = "generate"
        /\ client'.atServer[r] = m.no)
       => reqs'[r].prompt = m.facts]_vars

\* ---- C28
\* C28: with no valid API key configured, a generation request with feedback
\* and a configuration that is found ends with an error, without a call of
\* the service and without a new response record.
C28_NoKeyNoCall ==
  [][\A r \in Reqs :
       (/\ Returned(r) /\ reqs'[r].kind = "generate"
        /\ NoValidKey(openaiApiKey)
        /\ reqs'[r].feedback # "" /\ reqs'[r].config # NoConfig)
       => /\ reqs'[r].outcome \notin {"pending", "ok"}
          /\ reqs'[r].calls = 0
          /\ reqs'[r].writes = 0
          /\ UNCHANGED <<respStoreVars, respHanded>>]_vars

\* ---- C29
\* C29: a MemStorage and a FileStorage that start freshly seeded and are
\* given the same operations one after the other return the same at every
\* step: the same configuration, response record, list and outcome.
C29_SameResults ==
  (variant = "both" /\ reqs[MemSlot].pc = "done") =>
    /\ reqs[FileSlot].kind = reqs[MemSlot].kind
    /\ reqs[FileSlot].outcome = reqs[MemSlot].outcome
    /\ reqs[FileSlot].resCfg = reqs[MemSlot].resCfg
    /\ reqs[FileSlot].resRec = reqs[MemSlot].resRec
    /\ reqs[FileSlot].resList = reqs[MemSlot].resList

\* ---- C30
DeliveriesOf(image) ==
  Cardinality({i \in 1..Len(client.upload.delivered) :
                 client.upload.delivered[i].image = image})
\* C30: the facts extracted from one processed image are given to
\* onFactsExtracted at most once, whatever the user does after the upload.
C30_DeliveredAtMostOnce ==
  \A image \in 1..MaxImages : DeliveriesOf(image) <= 1

====
